---- MODULE Spec2Model ----
(***************************************************************************)
(* Model of the DataPost screenshot tooling:                               *)
(*   - resize_screenshots.py  (the image normalizer, a letterboxing batch) *)
(*   - generate_screenshots.py (the mock-up renderer)                      *)
(* Python floats are IEEE-754 binary64.  The arithmetic the scripts do on  *)
(* them (int/int, int/float, int*float, int(), >) is modelled bit-exactly  *)
(* on multi-limb naturals, because TLC integers are 32 bits wide.          *)
(***************************************************************************)
EXTENDS Integers, Sequences, FiniteSets, TLC

(***************************************************************************)
(* Multi-limb naturals: <<d1, d2, d3, d4>>, least significant limb first,  *)
(* value d1 + d2*W + d3*W^2 + d4*W^3 with W = 2^18 (72 bits).              *)
(***************************************************************************)
LimbBase == 2^18

BigZero == <<0, 0, 0, 0>>

\* Carry (or borrow) propagation: limbs may come in negative or >= LimbBase.
BigNorm(x) ==
    LET t1 == x[1]
        t2 == x[2] + (t1 \div LimbBase)
        t3 == x[3] + (t2 \div LimbBase)
        t4 == x[4] + (t3 \div LimbBase)
    IN  <<t1 % LimbBase, t2 % LimbBase, t3 % LimbBase, t4>>

BigFromInt(n) == <<n % LimbBase, n \div LimbBase, 0, 0>>

BigToInt(a) == a[1] + a[2] * LimbBase

BigMulSmall(a, n) == BigNorm(<<a[1] * n, a[2] * n, a[3] * n, a[4] * n>>)

BigDoubleAdd(a, bit) == BigNorm(<<2 * a[1] + bit, 2 * a[2], 2 * a[3], 2 * a[4]>>)

BigAddSmall(a, n) == BigNorm(<<a[1] + n, a[2], a[3], a[4]>>)

BigSub(a, b) == BigNorm(<<a[1] - b[1], a[2] - b[2], a[3] - b[3], a[4] - b[4]>>)

BigGeq(a, b) ==
    IF a[4] # b[4] THEN a[4] > b[4]
    ELSE IF a[3] # b[3] THEN a[3] > b[3]
    ELSE IF a[2] # b[2] THEN a[2] > b[2]
    ELSE a[1] >= b[1]

RECURSIVE IntBitLen(_)
IntBitLen(n) == IF n = 0 THEN 0 ELSE 1 + IntBitLen(n \div 2)

BigBitLen(a) ==
    IF a[4] # 0 THEN 54 + IntBitLen(a[4])
    ELSE IF a[3] # 0 THEN 36 + IntBitLen(a[3])
    ELSE IF a[2] # 0 THEN 18 + IntBitLen(a[2])
    ELSE IntBitLen(a[1])

RECURSIVE BigShl(_, _)
BigShl(a, k) ==
    IF k = 0 THEN a
    ELSE IF k >= 18 THEN BigShl(<<0, a[1], a[2], a[3]>>, k - 18)
    ELSE IF k > 12 THEN BigShl(BigMulSmall(a, 2^12), k - 12)
    ELSE BigMulSmall(a, 2^k)

RECURSIVE BigShr(_, _)
BigShr(a, k) ==
    IF k = 0 THEN a
    ELSE IF k >= 18 THEN BigShr(<<a[2], a[3], a[4], 0>>, k - 18)
    ELSE LET p == 2^k
             q == LimbBase \div p
         IN  <<(a[1] \div p) + (a[2] % p) * q,
               (a[2] \div p) + (a[3] % p) * q,
               (a[3] \div p) + (a[4] % p) * q,
               a[4] \div p>>

\* The low k bits of a, for k <= 18.
BigLowBits(a, k) == a[1] % (2^k)

BigIsOdd(a) == a[1] % 2 = 1

TwoTo53 == BigShl(BigFromInt(1), 53)
TwoTo52 == BigShl(BigFromInt(1), 52)

(***************************************************************************)
(* binary64 values >= 0: [m |-> mantissa, e |-> exponent], value m * 2^e   *)
(* with m < 2^53.  Exponents stay far inside the binary64 range here.      *)
(***************************************************************************)
FloatOfInt(n) == [m |-> BigFromInt(n), e |-> 0]

\* Restoring division: st = <<quotient so far, remainder>>, n bits still to
\* produce.  Returns <<quotient, remainder>>.
RECURSIVE DivLoop(_, _, _)
DivLoop(st, den, n) ==
    IF n = 0 THEN st
    ELSE LET r2 == BigDoubleAdd(st[2], 0)
         IN  IF BigGeq(r2, den)
             THEN DivLoop(<<BigDoubleAdd(st[1], 1), BigSub(r2, den)>>, den, n - 1)
             ELSE DivLoop(<<BigDoubleAdd(st[1], 0), r2>>, den, n - 1)

\* (num / den) * 2^x rounded to nearest, ties to even (num, den > 0).
RoundedQuotient(num, den, x) ==
    LET ln == BigBitLen(num)
        ld == BigBitLen(den)
        n1 == IF ln >= ld THEN num ELSE BigShl(num, ld - ln)
        d1 == IF ln >= ld THEN BigShl(den, ln - ld) ELSE den
        ge == BigGeq(n1, d1)
        n2 == IF ge THEN n1 ELSE BigDoubleAdd(n1, 0)
        k  == IF ge THEN ln - ld ELSE ln - ld - 1
        qr == DivLoop(<<BigFromInt(1), BigSub(n2, d1)>>, d1, 52)
        q  == qr[1]
        r2 == BigDoubleAdd(qr[2], 0)
        up == IF r2 = d1 THEN BigIsOdd(q) ELSE BigGeq(r2, d1)
        q1 == IF up THEN BigAddSmall(q, 1) ELSE q
    IN  IF q1 = TwoTo53 THEN [m |-> TwoTo52, e |-> k - 52 + x + 1]
        ELSE [m |-> q1, e |-> k - 52 + x]

\* Python int / int (true division): correctly rounded.
PyTrueDiv(a, b) ==
    IF a = 0 THEN FloatOfInt(0)
    ELSE RoundedQuotient(BigFromInt(a), BigFromInt(b), 0)

\* Python int / float.
PyDivFloat(n, f) ==
    IF n = 0 THEN FloatOfInt(0)
    ELSE RoundedQuotient(BigFromInt(n), f.m, 0 - f.e)

\* Python int * float (n < 2^12).
PyMulFloat(n, f) ==
    LET p   == BigMulSmall(f.m, n)
        len == BigBitLen(p)
        k   == len - 53
        low == BigLowBits(p, k)
        q   == BigShr(p, k)
        up  == IF low = 2^(k - 1) THEN BigIsOdd(q) ELSE low > 2^(k - 1)
        q1  == IF up THEN BigAddSmall(q, 1) ELSE q
    IN  IF len <= 53 THEN [m |-> p, e |-> f.e]
        ELSE IF q1 = TwoTo53 THEN [m |-> TwoTo52, e |-> f.e + k + 1]
        ELSE [m |-> q1, e |-> f.e + k]

\* A variant that rounds up where int() truncates.
PyIntUp(f) ==
    IF f.e >= 0 THEN BigToInt(BigShl(f.m, f.e))
    ELSE BigToInt(BigShr(f.m, 0 - f.e)) + 1

\* Python int(float): truncation toward zero.
PyInt(f) ==
    IF f.e >= 0 THEN BigToInt(BigShl(f.m, f.e))
    ELSE BigToInt(BigShr(f.m, 0 - f.e))

\* Python float > float.
PyGt(f, g) ==
    LET tf == BigBitLen(f.m) + f.e
        tg == BigBitLen(g.m) + g.e
    IN  IF f.m = BigZero THEN FALSE
        ELSE IF g.m = BigZero THEN TRUE
        ELSE IF tf # tg THEN tf > tg
        ELSE IF f.e >= g.e
             THEN BigShl(f.m, f.e - g.e) # g.m /\ BigGeq(BigShl(f.m, f.e - g.e), g.m)
             ELSE ~BigGeq(BigShl(g.m, g.e - f.e), f.m)


(***************************************************************************)
(* Paths are strings; f-string formatting is concatenation (TLC compares   *)
(* and concatenates strings character by character).                       *)
(***************************************************************************)
\* os.path.join(dir, name) where the scripts run (the hardcoded paths are
\* Windows paths).
PathJoin(dir, name) == dir \o "\\" \o name

VARIABLES
    prog,          \* which script this run executes: "normalize" or "render"
    disk,          \* files written by this run: path -> <<width, height>>
    log,           \* paths in the order they were saved
    out,           \* lines printed (the ones that tell how a file ended)
    \* ---- resize_screenshots.py
    npc,           \* position in the script
    idx,           \* index into files of the current iteration
    img,           \* img.size of the opened source image
    new_width, new_height,
    img_resized,   \* img_resized.size
    new_img,       \* new_img.size (the target canvas)
    paste_x, paste_y,
    \* ---- generate_screenshots.py
    script_dir,    \* os.path.dirname(__file__)
    rpc,           \* position in main
    dev, scr,      \* indices of the current device and screen
    step,          \* blocks of the current screen drawn so far
    canvas,        \* img.size of the canvas being drawn
    ycur,          \* the layout cursor y
    drawn,         \* the draw calls of the block drawn last
    blocks,        \* the blocks drawn on the canvas, in order
    tab_colors     \* the colour of each tab of the tab bar drawn on the canvas

nvars == <<npc, idx, img, new_width, new_height, img_resized, new_img, paste_x, paste_y>>

rvars == <<script_dir, rpc, dev, scr, step, canvas, ycur, drawn, blocks, tab_colors>>

vars == <<prog, disk, log, out, nvars, rvars>>

(***************************************************************************)
(* resize_screenshots.py                                                   *)
(***************************************************************************)
screenshots_dir == "C:\\Users\\Jeremy\\Documents\\GitHub\\DataPost-iPhone\\screenshots"

target_size == <<2048, 2732>>

files == <<"screenshot_1.png", "screenshot_2.png", "screenshot_3.png", "screenshot_4.png">>

input_path(filename) == PathJoin(screenshots_dir, filename)

\* f"ipad_{filename}"
output_path(filename) == PathJoin(screenshots_dir, "ipad_" \o filename)

\* img.size of a source image is an input: every small size, and sizes around
\* the two App Store formats, the target ratio and the extreme ratios.
MaxSmallDim == 5

SrcSizes ==
    ((1..MaxSmallDim) \X (1..MaxSmallDim)) \cup
    { <<1290, 2796>>, <<2796, 1290>>, <<2048, 2732>>, <<2732, 2048>>,
      <<1024, 1366>>, <<512, 683>>, <<128, 93>>, <<687, 1366>>,
      <<2048, 1>>, <<2049, 1>>, <<1, 2732>>, <<1, 2733>> }

Unbound == <<0, 0>>

\* A variant with the ratio taken as height over width.
img_ratio_inverted(w, h) == PyTrueDiv(h, w)

img_ratio(w, h) == PyTrueDiv(w, h)

target_ratio == PyTrueDiv(target_size[1], target_size[2])

\* A variant with the branches of line 23 exchanged.
FitByWidthInverted(r) == ~PyGt(r, PyTrueDiv(target_size[1], target_size[2]))

\* The test of line 23.
FitByWidth(r) == PyGt(r, target_ratio)

\* Lines 20-30: <<new_width, new_height>>.
FitSize(w, h) ==
    LET r == img_ratio(w, h)
    IN  IF FitByWidth(r)
        THEN <<target_size[1], PyInt(PyDivFloat(target_size[1], r))>>
        ELSE <<PyInt(PyMulFloat(target_size[2], r)), target_size[2]>>

\* FitSize tabulated over the source sizes Open can bind (the merge with the
\* empty function makes TLC compute the table once, as an explicit function).
FitTable == [size \in SrcSizes |-> FitSize(size[1], size[2])] @@ << >>

\* A variant that pastes flush with the far edge.
PasteOffsetFlush(target, new) == target - new

\* Lines 36-37.
PasteOffset(target, new) == (target - new) \div 2

\* A variant that creates the canvas in landscape.
NewCanvasSizeTransposed(target) == <<target[2], target[1]>>

\* Image.new('RGB', target_size, ...): the size of the canvas created.
NewCanvasSize(target) == target

\* Image.resize raises ValueError unless both sides are at least 1.
ResizeAccepts(nw, nh) == nw >= 1 /\ nh >= 1

\* A variant without the try/except: the exception ends the script.
Uncaught(i) ==
    /\ out' = Append(out, <<"Error", i>>)
    /\ npc' = "aborted"

\* except Exception as e: print(...); the loop goes on with the next file.
Caught(i) ==
    /\ out' = Append(out, <<"Error", i>>)
    /\ npc' = "loop"

InitNormalize ==
    /\ prog = "normalize"
    /\ script_dir = "." /\ rpc = "idle" /\ dev = 1 /\ scr = 1 /\ step = 0
    /\ canvas = <<0, 0>> /\ ycur = 0 /\ drawn = << >> /\ blocks = << >>
    /\ tab_colors = << >>
    /\ disk = << >>
    /\ log = << >>
    /\ out = << >>
    /\ npc = "loop"
    /\ idx = 0
    /\ img = Unbound
    /\ new_width = 0
    /\ new_height = 0
    /\ img_resized = Unbound
    /\ new_img = Unbound
    /\ paste_x = 0
    /\ paste_y = 0

\* for filename in files: the next file, its two paths (lines 11-13).  The
\* values left from the previous iteration are dead here and are dropped.
NextFile ==
    /\ prog = "normalize" /\ npc = "loop" /\ idx < Len(files)
    /\ idx' = idx + 1
    /\ npc' = "open"
    /\ img' = Unbound /\ new_width' = 0 /\ new_height' = 0
    /\ img_resized' = Unbound /\ new_img' = Unbound
    /\ paste_x' = 0 /\ paste_y' = 0
    /\ UNCHANGED <<rvars, prog, disk, log, out>>

\* Image.open succeeds on an image of some size (lines 16-17).
Open ==
    /\ prog = "normalize" /\ npc = "open"
    /\ \E size \in SrcSizes : img' = size
    /\ npc' = "fit"
    /\ UNCHANGED <<rvars, prog, disk, log, out, idx, new_width, new_height,
                   img_resized, new_img, paste_x, paste_y>>

\* Image.open raises (missing file, not an image).
OpenFails ==
    /\ prog = "normalize" /\ npc = "open"
    /\ Caught(idx)
    /\ UNCHANGED <<rvars, prog, disk, log, idx, img, new_width, new_height,
                   img_resized, new_img, paste_x, paste_y>>

\* Lines 20-30.
Fit ==
    /\ prog = "normalize" /\ npc = "fit"
    /\ new_width' = FitTable[img][1]
    /\ new_height' = FitTable[img][2]
    /\ npc' = "resize"
    /\ UNCHANGED <<rvars, prog, disk, log, out, idx, img, img_resized, new_img,
                   paste_x, paste_y>>

\* Line 32.
Resize ==
    /\ prog = "normalize" /\ npc = "resize"
    /\ ResizeAccepts(new_width, new_height)
    /\ img_resized' = <<new_width, new_height>>
    /\ npc' = "compose"
    /\ UNCHANGED <<rvars, prog, disk, log, out, idx, img, new_width, new_height,
                   new_img, paste_x, paste_y>>

\* Line 32 raises: a zero side, or the pixel data cannot be decoded.
ResizeFails ==
    /\ prog = "normalize" /\ npc = "resize"
    /\ Caught(idx)
    /\ UNCHANGED <<rvars, prog, disk, log, idx, img, new_width, new_height,
                   img_resized, new_img, paste_x, paste_y>>

\* Lines 35-43.
Compose ==
    /\ prog = "normalize" /\ npc = "compose"
    /\ new_img' = NewCanvasSize(target_size)
    /\ paste_x' = PasteOffset(target_size[1], new_width)
    /\ paste_y' = PasteOffset(target_size[2], new_height)
    /\ npc' = "save"
    /\ UNCHANGED <<rvars, prog, disk, log, out, idx, img, new_width, new_height,
                   img_resized>>

\* Lines 45-46.
Save ==
    /\ prog = "normalize" /\ npc = "save"
    /\ LET p == output_path(files[idx])
       IN  /\ disk' = (p :> new_img) @@ disk
           /\ log' = Append(log, p)
    /\ out' = Append(out, <<"Saved", idx>>)
    /\ npc' = "loop"
    /\ UNCHANGED <<rvars, prog, idx, img, new_width, new_height, img_resized,
                   new_img, paste_x, paste_y>>

\* new_img.save raises (the directory is missing or not writable).
SaveFails ==
    /\ prog = "normalize" /\ npc = "save"
    /\ Caught(idx)
    /\ UNCHANGED <<rvars, prog, disk, log, idx, img, new_width, new_height,
                   img_resized, new_img, paste_x, paste_y>>

\* Line 50.
Done ==
    /\ prog = "normalize" /\ npc = "loop" /\ idx = Len(files)
    /\ out' = Append(out, <<"Done">>)
    /\ npc' = "done"
    /\ UNCHANGED <<rvars, prog, disk, log, idx, img, new_width, new_height,
                   img_resized, new_img, paste_x, paste_y>>

NormalizeNext ==
    \/ NextFile \/ Open \/ OpenFails \/ Fit \/ Resize \/ ResizeFails
    \/ Compose \/ Save \/ SaveFails \/ Done


(***************************************************************************)
(* generate_screenshots.py: geometry of the draw calls.                    *)
(* A draw call is recorded by its coordinates: the corners of a rectangle, *)
(* rounded rectangle or ellipse box, the end points of a line, the origin  *)
(* of a text.  A centered label also records c = <<left edge of its        *)
(* container, width of the container, measured text width>>.  Colours,     *)
(* fonts, radii and line widths are not coordinates and are left out.      *)
(***************************************************************************)
Shape(kind, x0, y0, x1, y1) ==
    [k |-> kind, x0 |-> x0, y0 |-> y0, x1 |-> x1, y1 |-> y1, c |-> << >>]

Rectangle(x0, y0, x1, y1) == Shape("rectangle", x0, y0, x1, y1)

RoundedRect(x0, y0, x1, y1) == Shape("rounded_rectangle", x0, y0, x1, y1)

Ellipse(x0, y0, x1, y1) == Shape("ellipse", x0, y0, x1, y1)

Line(x0, y0, x1, y1) == Shape("line", x0, y0, x1, y1)

Text(x, y) == Shape("text", x, y, x, y)

CenteredText(x, y, left, width, tw) ==
    [k |-> "text", x0 |-> x, y0 |-> y, x1 |-> x, y1 |-> y, c |-> <<left, width, tw>>]

\* int(k * scale).  scale is 3.0 or 2.0 and k an integer literal: the product
\* is an integer far below 2^53, which binary64 holds exactly, so the float
\* product and its truncation are the integer product.  scale is kept as
\* that integer.
Sc(k, scale) == k * scale

\* The float literal 0.65 = 5854679515581645 * 2^-53.
Float065 == [m |-> <<52429, 209715, 85196, 0>>, e |-> -53]

\* draw.textbbox((0, 0), text, font): bbox[2] - bbox[0] of a text of n
\* characters in a font of the given pixel size.  The font is whatever
\* get_font found, so the width is an input: between 0 and one em per
\* character; the values within TextSlack of either end are enumerated.
TextSlack == 1

Measured(max) ==
    {v \in (0..TextSlack) \cup ((max - TextSlack)..max) : 0 <= v /\ v <= max}

TextWidths(text, size) == Measured(Len(text) * size)

\* bbox[3] - bbox[1]: at most two ems.
TextHeights(size) == Measured(2 * size)

\* A variant that forgets to halve the slack.
CenterInUnhalved(width, tw) == width - tw

\* (w - tw) // 2, the left edge of a label centered in a width.
CenterIn(width, tw) == (width - tw) \div 2

\* cx - tw // 2, the left edge of a label centered on cx.
CenterOn(cx, tw) == cx - (tw \div 2)

\* Lines 79-90.
StatusBarOps(w, scale) ==
    LET y  == Sc(12, scale)
        bx == w - Sc(40, scale)
        by == y + Sc(2, scale)
        bw == Sc(25, scale)
        bh == Sc(12, scale)
    IN  << Text(Sc(32, scale), y),
           RoundedRect(bx, by, bx + bw, by + bh),
           Rectangle(bx + Sc(2, scale), by + Sc(2, scale),
                     bx + bw - Sc(2, scale), by + bh - Sc(2, scale)) >>

\* Lines 93-102.
NavBarOps(w, scale, tw, y_start) ==
    LET nav_h == Sc(44, scale)
    IN  << Rectangle(0, y_start, w, y_start + nav_h),
           CenteredText(CenterIn(w, tw), y_start + Sc(12, scale), 0, w, tw) >>

NavBarEnd(scale, y_start) == y_start + Sc(44, scale)

\* Lines 105-109.
LargeTitleOps(scale, y_start) == << Text(Sc(20, scale), y_start + Sc(8, scale)) >>

\* A variant that returns the cursor moved up instead of down.
LargeTitleEndUp(scale, y_start) == y_start - Sc(52, scale)

LargeTitleEnd(scale, y_start) == y_start + Sc(52, scale)

\* Lines 112-140; lw[i] is the measured width of the i-th label.
TabBarOps(w, h, scale, lw) ==
    LET tab_h    == Sc(83, scale)
        y        == h - tab_h
        tab_w    == w \div 3
        circle_r == Sc(12, scale)
        circle_y == y + Sc(10, scale)
        cx(i)    == tab_w * i + tab_w \div 2
        Tab(i)   == << Ellipse(cx(i) - circle_r, circle_y,
                               cx(i) + circle_r, circle_y + circle_r * 2),
                       CenteredText(CenterOn(cx(i), lw[i + 1]), y + Sc(42, scale),
                                    tab_w * i, tab_w, lw[i + 1]) >>
    IN  << Rectangle(0, y, w, h), Line(0, y, w, y) >> \o Tab(0) \o Tab(1) \o Tab(2)

TabLabels == <<"Status", "Profile", "Settings">>

\* A variant that ignores active_tab and highlights the default tab 0.
TabColorsDefault(active_tab) ==
    [i \in 1..3 |-> IF i - 1 = 0 THEN "BLUE" ELSE "TEXT_SECONDARY"]

\* Line 131: the colour of the i-th tab, i counted from 1 here.
TabColors(active_tab) ==
    [i \in 1..3 |-> IF i - 1 = active_tab THEN "BLUE" ELSE "TEXT_SECONDARY"]

\* Lines 143-165.
ConnectionCardOps(w, scale, y) ==
    LET card_h == Sc(80, scale)
        mx     == Sc(16, scale)
        icon_x == mx + Sc(16, scale)
        icon_y == y + Sc(20, scale)
        icon_r == Sc(18, scale)
        tx     == icon_x + icon_r * 2 + Sc(16, scale)
    IN  << RoundedRect(mx, y, w - mx, y + card_h),
           Ellipse(icon_x, icon_y, icon_x + icon_r * 2, icon_y + icon_r * 2),
           Text(tx, y + Sc(18, scale)),
           Text(tx, y + Sc(42, scale)) >>

ConnectionCardEnd(scale, y) == y + Sc(80, scale) + Sc(16, scale)

\* Lines 168-198.
TransferCardOps(w, scale, y, is_active, progress) ==
    LET card_h == Sc(70, scale)
        mx     == Sc(16, scale)
        ix     == mx + Sc(14, scale)
        iy     == y + Sc(16, scale)
        ir     == Sc(16, scale)
        tx     == ix + ir * 2 + Sc(14, scale)
        bar_y  == y + Sc(38, scale)
        bar_w  == w - mx * 2 - (tx - mx) - Sc(14, scale)
        bar_h  == Sc(6, scale)
    IN  << RoundedRect(mx, y, w - mx, y + card_h),
           Ellipse(ix, iy, ix + ir * 2, iy + ir * 2),
           Text(tx, y + Sc(12, scale)) >>
        \o (IF is_active
            THEN << RoundedRect(tx, bar_y, tx + bar_w, bar_y + bar_h) >>
                 \o (IF PyGt(progress, FloatOfInt(0))
                     THEN << RoundedRect(tx, bar_y,
                                         tx + PyInt(PyMulFloat(bar_w, progress)),
                                         bar_y + bar_h) >>
                     ELSE << >>)
                 \o << Text(tx, bar_y + Sc(10, scale)) >>
            ELSE << Text(tx, y + Sc(36, scale)) >>)

TransferCardEnd(scale, y) == y + Sc(70, scale) + Sc(10, scale)

\* Lines 201-230; tw[1..3] are the measured widths of the three captions.
ActionButtonsOps(w, scale, y, tw) ==
    LET mx    == Sc(16, scale)
        btn_h == Sc(50, scale)
        y2    == y + btn_h + Sc(10, scale)
        half  == (w - mx * 2 - Sc(10, scale)) \div 2
        x2    == mx + half + Sc(10, scale)
    IN  << RoundedRect(mx, y, w - mx, y + btn_h),
           CenteredText(CenterIn(w, tw[1]), y + Sc(14, scale), 0, w, tw[1]),
           RoundedRect(mx, y2, mx + half, y2 + btn_h),
           CenteredText(mx + CenterIn(half, tw[2]), y2 + Sc(14, scale), mx, half, tw[2]),
           RoundedRect(x2, y2, x2 + half, y2 + btn_h),
           CenteredText(x2 + CenterIn(half, tw[3]), y2 + Sc(14, scale), x2, half, tw[3]) >>

ActionButtonsEnd(scale, y) ==
    y + Sc(50, scale) + Sc(10, scale) + Sc(50, scale) + Sc(16, scale)

ActionCaptions == <<"View Bundles", "Sync Now", "Scan">>

\* Line 255: btn_y.
ActionButtonsTop(h, scale) == h - Sc(83, scale) - Sc(140, scale)

\* Lines 275-285: the avatar circle and the initials; returns with
\* y += avatar_r * 2 + int(10 * scale).
AvatarOps(w, scale, y, iw, ih) ==
    LET avatar_r == Sc(40, scale)
        cx       == w \div 2
    IN  << Ellipse(cx - avatar_r, y, cx + avatar_r, y + avatar_r * 2),
           CenteredText(CenterOn(cx, iw), y + avatar_r - (ih \div 2), 0, w, iw) >>

AvatarEnd(scale, y) == y + Sc(40, scale) * 2 + Sc(10, scale)

\* Lines 290-295: a line of text centered on the canvas (name, email).
CenteredLineOps(w, y, tw) == << CenteredText(CenterOn(w \div 2, tw), y, 0, w, tw) >>

\* Lines 297-306: the "Verified Courier" badge.
BadgeOps(w, scale, y, tw) ==
    LET cx == w \div 2
        bw == tw + Sc(20, scale)
        bh == Sc(26, scale)
        bx == cx - (bw \div 2)
    IN  << RoundedRect(bx, y, bx + bw, y + bh),
           CenteredText(bx + Sc(10, scale), y + Sc(5, scale), bx, bw, tw) >>

BadgeEnd(scale, y) == y + Sc(26, scale) + Sc(24, scale)

\* Lines 308-311 and 349-352: a bold header at the left margin.
ProfileHeaderOps(scale, y) == << Text(Sc(16, scale), y) >>

\* Lines 319-345: the i-th of the three stat cards; vw is the measured width
\* of the value, lw[j] of the j-th label line.
StatCardOps(w, scale, y, i, vw, lw) ==
    LET mx     == Sc(16, scale)
        card_w == (w - mx * 2 - Sc(20, scale)) \div 3
        card_h == Sc(110, scale)
        x      == mx + i * (card_w + Sc(10, scale))
        icon_y == y + Sc(12, scale)
        ir     == Sc(14, scale)
    IN  << RoundedRect(x, y, x + card_w, y + card_h),
           Ellipse(x + card_w \div 2 - ir, icon_y, x + card_w \div 2 + ir, icon_y + ir * 2),
           CenteredText(x + CenterIn(card_w, vw), y + Sc(46, scale), x, card_w, vw) >>
        \o [j \in 1..Len(lw) |->
              CenteredText(x + CenterIn(card_w, lw[j]),
                           y + Sc(80, scale) + (j - 1) * Sc(14, scale),
                           x, card_w, lw[j])]

\* Lines 359-379: the i-th of the two rank cards; tw[1..3] are the measured
\* widths of rank, of_total and title.
RankCardOps(w, scale, y, i, tw) ==
    LET mx      == Sc(16, scale)
        rcard_w == (w - mx * 2 - Sc(10, scale)) \div 2
        rcard_h == Sc(100, scale)
        x       == mx + i * (rcard_w + Sc(10, scale))
        medal_r == Sc(12, scale)
    IN  << RoundedRect(x, y, x + rcard_w, y + rcard_h),
           Ellipse(x + rcard_w \div 2 - medal_r, y + Sc(10, scale),
                   x + rcard_w \div 2 + medal_r, y + Sc(10, scale) + medal_r * 2),
           CenteredText(x + CenterIn(rcard_w, tw[1]), y + Sc(38, scale), x, rcard_w, tw[1]),
           CenteredText(x + CenterIn(rcard_w, tw[2]), y + Sc(66, scale), x, rcard_w, tw[2]),
           CenteredText(x + CenterIn(rcard_w, tw[3]), y + Sc(82, scale), x, rcard_w, tw[3]) >>

\* Lines 383-387.
CommunityBarOps(w, scale, y) ==
    LET mx     == Sc(16, scale)
        comm_h == Sc(44, scale)
    IN  << RoundedRect(mx, y, w - mx, y + comm_h),
           Text(mx + Sc(14, scale), y + Sc(14, scale)) >>

\* Lines 393-420; kind is "toggle", "value" or "plain", vw the measured
\* width of the value.
FormRowOps(w, scale, y, kind, toggle_on, vw) ==
    LET mx     == Sc(16, scale)
        row_h  == Sc(44, scale)
        tx     == w - mx - Sc(51, scale)
        ty     == y + Sc(8, scale)
        tw     == Sc(51, scale)
        th     == Sc(31, scale)
        knob_r == Sc(13, scale)
        kx     == IF toggle_on THEN tx + tw - knob_r - Sc(2, scale)
                  ELSE tx + Sc(2, scale)
    IN  << Rectangle(mx, y, w - mx, y + row_h),
           Line(mx + Sc(16, scale), y + row_h, w - mx, y + row_h),
           Text(mx + Sc(16, scale), y + Sc(12, scale)) >>
        \o (IF kind = "toggle"
            THEN << RoundedRect(tx, ty, tx + tw, ty + th),
                    Ellipse(kx, ty + Sc(2, scale),
                            kx + knob_r * 2, ty + Sc(2, scale) + knob_r * 2) >>
            ELSE IF kind = "value"
            THEN << Text(w - mx - Sc(16, scale) - vw, y + Sc(13, scale)) >>
            ELSE << >>)

\* A variant with rows of 56 points.
FormRowEndTall(scale, y) == y + Sc(56, scale)

FormRowEnd(scale, y) == y + Sc(44, scale)

\* Lines 423-427.
FormSectionHeaderOps(scale, y) == << Text(Sc(32, scale), y + Sc(8, scale)) >>

FormSectionHeaderEnd(scale, y) == y + Sc(32, scale)

\* Line 446: the rounded top of the first form section.
TopCornersOps(w, scale, y) ==
    << RoundedRect(Sc(16, scale), y, w - Sc(16, scale), y + Sc(4, scale)) >>

\* Lines 478-479.
FooterOps(scale, y) == << Text(Sc(32, scale), y + Sc(8, scale)) >>

\* Lines 493-503: the nav bar of the bundles screen, with its Close button.
BundlesNavOps(w, scale, tw) ==
    LET safe_top == Sc(59, scale)
        nav_h    == Sc(44, scale)
    IN  << Rectangle(0, safe_top, w, safe_top + nav_h),
           CenteredText(CenterIn(w, tw), safe_top + Sc(12, scale), 0, w, tw),
           Text(Sc(16, scale), safe_top + Sc(12, scale)) >>

BundlesNavEnd(scale) == Sc(59, scale) + Sc(44, scale)

\* Lines 505-512.
SearchBarOps(w, scale, y) ==
    LET search_y == y + Sc(8, scale)
        search_h == Sc(36, scale)
        mx       == Sc(16, scale)
    IN  << RoundedRect(mx, search_y, w - mx, search_y + search_h),
           Text(mx + Sc(32, scale), search_y + Sc(8, scale)) >>

SearchBarEnd(scale, y) == y + Sc(8, scale) + Sc(36, scale) + Sc(12, scale)

\* Lines 514-517.
BundlesHeaderOps(scale, y) == << Text(Sc(16, scale) + Sc(4, scale), y) >>

BundlesHeaderEnd(scale, y) == y + Sc(24, scale)

\* Lines 534-574: one bundle row; cw is the measured width of the category.
BundleRowOps(w, scale, y, cw) ==
    LET mx        == Sc(16, scale)
        row_h     == Sc(80, scale)
        icon_size == Sc(50, scale)
        icon_x    == mx
        icon_y    == y + (row_h - icon_size) \div 2
        cr        == Sc(10, scale)
        tx        == icon_x + icon_size + Sc(12, scale)
        badge_w   == cw + Sc(10, scale)
        badge_h   == Sc(18, scale)
        badge_y   == y + Sc(50, scale)
        check_r   == Sc(15, scale)
        check_x   == w - mx - check_r * 2
        check_y   == y + (row_h - check_r * 2) \div 2
    IN  << Rectangle(0, y, w, y + row_h),
           Line(mx, y + row_h, w, y + row_h),
           RoundedRect(icon_x, icon_y, icon_x + icon_size, icon_y + icon_size),
           Ellipse(icon_x + icon_size \div 2 - cr, icon_y + icon_size \div 2 - cr,
                   icon_x + icon_size \div 2 + cr, icon_y + icon_size \div 2 + cr),
           Text(tx, y + Sc(12, scale)),
           Text(tx, y + Sc(32, scale)),
           RoundedRect(tx, badge_y, tx + badge_w, badge_y + badge_h),
           CenteredText(tx + Sc(5, scale), badge_y + Sc(3, scale), tx, badge_w, cw),
           Text(tx + badge_w + Sc(8, scale), badge_y + Sc(3, scale)),
           Ellipse(check_x, check_y, check_x + check_r * 2, check_y + check_r * 2) >>

BundleRowEnd(scale, y) == y + Sc(80, scale)

(***************************************************************************)
(* generate_screenshots.py: the four screens as the sequence of blocks     *)
(* each generate_*_screen function draws, and main.                        *)
(***************************************************************************)
Ins(op, a, b, c) == [op |-> op, a |-> a, b |-> b, c |-> c]

\* Lines 233-259.
generate_status_screen ==
    << Ins("status_bar", 0, 0, 0),
       Ins("nav_bar", "", 0, 0),
       Ins("large_title", "Status", 0, 0),
       Ins("advance", <<8>>, 0, 0),
       Ins("connection_card", TRUE, 0, 0),
       Ins("status_header", 0, 0, 0),
       Ins("transfer_card", TRUE, Float065, 0),
       Ins("transfer_card", FALSE, FloatOfInt(0), 0),
       Ins("action_buttons", 0, 0, 0),
       Ins("tab_bar", 0, 0, 0) >>

\* Lines 262-390.  "* Verified Courier" stands for the badge text, whose
\* first character is a check mark: 18 characters.
generate_profile_screen ==
    << Ins("status_bar", 0, 0, 0),
       Ins("nav_bar", "", 0, 0),
       Ins("large_title", "Profile", 0, 0),
       Ins("advance", <<12>>, 0, 0),
       Ins("avatar", "JD", 0, 0),
       Ins("centered_line", "Jeremy Demo", 22, 30),
       Ins("centered_line", "jeremy@worldpossible.org", 14, 24),
       Ins("badge", "* Verified Courier", 0, 0),
       Ins("profile_header", 0, 0, 0),
       Ins("stat_card", 0, "12", <<"RACHELs", "Visited">>),
       Ins("stat_card", 1, "48", <<"Deliveries">>),
       Ins("stat_card", 2, "31", <<"Pickups">>),
       Ins("advance", <<110, 20>>, 0, 0),
       Ins("profile_header", 0, 0, 0),
       Ins("rank_card", 0, <<"#3", "of 156", "Devices Rank">>, 0),
       Ins("rank_card", 1, <<"#7", "of 156", "Deliveries Rank">>, 0),
       Ins("advance", <<100, 16>>, 0, 0),
       Ins("community_bar", 0, 0, 0),
       Ins("tab_bar", 1, 0, 0) >>

\* Lines 430-482.
generate_settings_screen ==
    << Ins("status_bar", 0, 0, 0),
       Ins("nav_bar", "", 0, 0),
       Ins("large_title", "Settings", 0, 0),
       Ins("advance", <<4>>, 0, 0),
       Ins("form_section_header", 0, 0, 0),
       Ins("top_corners", 0, 0, 0),
       Ins("form_row", "toggle", "", TRUE),
       Ins("form_row", "toggle", "", TRUE),
       Ins("form_row", "value", "Original", TRUE),
       Ins("advance", <<8>>, 0, 0),
       Ins("form_section_header", 0, 0, 0),
       Ins("form_row", "toggle", "", TRUE),
       Ins("advance", <<8>>, 0, 0),
       Ins("form_section_header", 0, 0, 0),
       Ins("form_row", "value", "2.4 GB", TRUE),
       Ins("form_row", "value", "156 MB", TRUE),
       Ins("form_row", "plain", "", TRUE),
       Ins("advance", <<8>>, 0, 0),
       Ins("form_section_header", 0, 0, 0),
       Ins("form_row", "value", "1.1 (3)", TRUE),
       Ins("form_row", "plain", "", TRUE),
       Ins("form_row", "plain", "", TRUE),
       Ins("form_row", "plain", "", TRUE),
       Ins("advance", <<8>>, 0, 0),
       Ins("form_section_header", 0, 0, 0),
       Ins("form_row", "plain", "", TRUE),
       Ins("form_row", "plain", "", TRUE),
       Ins("footer", 0, 0, 0),
       Ins("tab_bar", 2, 0, 0) >>

\* Lines 485-576.
generate_bundles_screen ==
    << Ins("status_bar", 0, 0, 0),
       Ins("bundles_nav", "Content Bundles", 0, 0),
       Ins("search_bar", 0, 0, 0),
       Ins("bundles_header", 0, 0, 0),
       Ins("bundle_row", "Encyclopedia", 0, 0),
       Ins("bundle_row", "Education", 0, 0),
       Ins("bundle_row", "Textbooks", 0, 0),
       Ins("bundle_row", "Health", 0, 0),
       Ins("bundle_row", "Education", 0, 0) >>

\* Lines 581-584.
devices ==
    << [w |-> 1290, h |-> 2796, scale |-> 3, prefix |-> "iphone"],
       [w |-> 2048, h |-> 2732, scale |-> 2, prefix |-> "ipad"] >>

\* Lines 586-591.
screens ==
    << [name |-> "status",   generator |-> generate_status_screen],
       [name |-> "profile",  generator |-> generate_profile_screen],
       [name |-> "settings", generator |-> generate_settings_screen],
       [name |-> "bundles",  generator |-> generate_bundles_screen] >>

\* Where the script may lie: in the repository the normalizer names, or elsewhere.
ScriptDirs == {"C:\\Users\\Jeremy\\Documents\\GitHub\\DataPost-iPhone", "."}

\* Line 16.
SCREENSHOTS_DIR(dir) == PathJoin(dir, "screenshots")

\* A variant that leaves the device prefix out of the name.
RenderFileNameNoPrefix(prefix, name) == name \o ".png"

\* Line 598: f"{prefix}_{name}.png".
RenderFileName(prefix, name) == prefix \o "_" \o name \o ".png"

RenderPath(dir, prefix, name) == PathJoin(SCREENSHOTS_DIR(dir), RenderFileName(prefix, name))

\* A variant that creates the canvas in landscape.
CanvasSizeTransposed(w, h) == <<h, w>>

\* Image.new('RGB', (w, h), ...): the size of the canvas created.
CanvasSize(w, h) == <<w, h>>

Gen == screens[scr].generator
Cur == Gen[step + 1]
W == devices[dev].w
H == devices[dev].h
Scale == devices[dev].scale

InitRender ==
    /\ prog = "render"
    /\ script_dir \in ScriptDirs
    /\ disk = << >> /\ log = << >> /\ out = << >>
    /\ rpc = "start" /\ dev = 1 /\ scr = 1 /\ step = 0
    /\ canvas = Unbound /\ ycur = 0 /\ drawn = << >> /\ blocks = << >>
    /\ tab_colors = << >>
    /\ npc = "idle" /\ idx = 0 /\ img = Unbound
    /\ new_width = 0 /\ new_height = 0
    /\ img_resized = Unbound /\ new_img = Unbound
    /\ paste_x = 0 /\ paste_y = 0

Drawing(op) ==
    /\ prog = "render" /\ rpc = "draw"
    /\ step < Len(Gen)
    /\ Cur.op = op

\* One block drawn: its draw calls, and the layout cursor after it.
Drew(ops, newy) ==
    /\ drawn' = ops
    /\ ycur' = newy
    /\ step' = step + 1
    /\ blocks' = Append(blocks, Cur.op)
    /\ tab_colors' = IF Cur.op = "tab_bar" THEN TabColors(Cur.a) ELSE tab_colors
    /\ UNCHANGED <<prog, script_dir, disk, log, out, nvars, rpc, dev, scr, canvas>>

\* Lines 596-597 and the first two lines of every generator.
NewCanvas ==
    /\ prog = "render" /\ rpc = "start" /\ dev <= Len(devices)
    /\ canvas' = CanvasSize(W, H)
    /\ rpc' = "draw"
    /\ step' = 0 /\ ycur' = 0 /\ drawn' = << >> /\ blocks' = << >>
    /\ tab_colors' = << >>
    /\ UNCHANGED <<prog, script_dir, disk, log, out, nvars, dev, scr>>

DrawStatusBar ==
    /\ Drawing("status_bar")
    /\ Drew(StatusBarOps(W, Scale), ycur)

\* y = draw_nav_bar(draw, w, scale, "", safe_top)
DrawNavBar ==
    /\ Drawing("nav_bar")
    /\ \E tw \in TextWidths(Cur.a, Sc(17, Scale)) :
          Drew(NavBarOps(W, Scale, tw, Sc(59, Scale)), NavBarEnd(Scale, Sc(59, Scale)))

DrawLargeTitle ==
    /\ Drawing("large_title")
    /\ Drew(LargeTitleOps(Scale, ycur), LargeTitleEnd(Scale, ycur))

\* y += int(k * scale), or y += <height> + int(k * scale).
Advance ==
    /\ Drawing("advance")
    /\ Drew(<< >>, IF Len(Cur.a) = 1 THEN ycur + Sc(Cur.a[1], Scale)
                   ELSE ycur + Sc(Cur.a[1], Scale) + Sc(Cur.a[2], Scale))

DrawConnectionCard ==
    /\ Drawing("connection_card")
    /\ Drew(ConnectionCardOps(W, Scale, ycur), ConnectionCardEnd(Scale, ycur))

\* Lines 246-249.
DrawStatusHeader ==
    /\ Drawing("status_header")
    /\ Drew(<< Text(Sc(20, Scale), ycur) >>, ycur + Sc(28, Scale))

DrawTransferCard ==
    /\ Drawing("transfer_card")
    /\ Drew(TransferCardOps(W, Scale, ycur, Cur.a, Cur.b), TransferCardEnd(Scale, ycur))

\* Lines 255-256: the returned cursor is not used.
DrawActionButtons ==
    /\ Drawing("action_buttons")
    /\ \E a \in TextWidths(ActionCaptions[1], Sc(16, Scale)),
          b \in TextWidths(ActionCaptions[2], Sc(16, Scale)),
          c \in TextWidths(ActionCaptions[3], Sc(16, Scale)) :
          Drew(ActionButtonsOps(W, Scale, ActionButtonsTop(H, Scale), <<a, b, c>>), ycur)

DrawTabBar ==
    /\ Drawing("tab_bar")
    /\ \E a \in TextWidths(TabLabels[1], Sc(10, Scale)),
          b \in TextWidths(TabLabels[2], Sc(10, Scale)),
          c \in TextWidths(TabLabels[3], Sc(10, Scale)) :
          Drew(TabBarOps(W, H, Scale, <<a, b, c>>), ycur)

DrawAvatar ==
    /\ Drawing("avatar")
    /\ \E iw \in TextWidths(Cur.a, Sc(32, Scale)), ih \in TextHeights(Sc(32, Scale)) :
          Drew(AvatarOps(W, Scale, ycur, iw, ih), AvatarEnd(Scale, ycur))

DrawCenteredLine ==
    /\ Drawing("centered_line")
    /\ \E tw \in TextWidths(Cur.a, Sc(Cur.b, Scale)) :
          Drew(CenteredLineOps(W, ycur, tw), ycur + Sc(Cur.c, Scale))

DrawBadge ==
    /\ Drawing("badge")
    /\ \E tw \in TextWidths(Cur.a, Sc(12, Scale)) :
          Drew(BadgeOps(W, Scale, ycur, tw), BadgeEnd(Scale, ycur))

DrawProfileHeader ==
    /\ Drawing("profile_header")
    /\ Drew(ProfileHeaderOps(Scale, ycur), ycur + Sc(30, Scale))

LineWidths(lines, size) ==
    IF Len(lines) = 1
    THEN {<<a>> : a \in TextWidths(lines[1], size)}
    ELSE {<<a, b>> : a \in TextWidths(lines[1], size), b \in TextWidths(lines[2], size)}

DrawStatCard ==
    /\ Drawing("stat_card")
    /\ \E vw \in TextWidths(Cur.b, Sc(28, Scale)), lw \in LineWidths(Cur.c, Sc(11, Scale)) :
          Drew(StatCardOps(W, Scale, ycur, Cur.a, vw, lw), ycur)

DrawRankCard ==
    /\ Drawing("rank_card")
    /\ \E a \in TextWidths(Cur.b[1], Sc(28, Scale)),
          b \in TextWidths(Cur.b[2], Sc(11, Scale)),
          c \in TextWidths(Cur.b[3], Sc(11, Scale)) :
          Drew(RankCardOps(W, Scale, ycur, Cur.a, <<a, b, c>>), ycur)

\* The cursor is not advanced past the bar.
DrawCommunityBar ==
    /\ Drawing("community_bar")
    /\ Drew(CommunityBarOps(W, Scale, ycur), ycur)

DrawFormSectionHeader ==
    /\ Drawing("form_section_header")
    /\ Drew(FormSectionHeaderOps(Scale, ycur), FormSectionHeaderEnd(Scale, ycur))

DrawTopCorners ==
    /\ Drawing("top_corners")
    /\ Drew(TopCornersOps(W, Scale, ycur), ycur)

DrawFormRow ==
    /\ Drawing("form_row")
    /\ \E vw \in (IF Cur.a = "value" THEN TextWidths(Cur.b, Sc(15, Scale)) ELSE {0}) :
          Drew(FormRowOps(W, Scale, ycur, Cur.a, Cur.c, vw), FormRowEnd(Scale, ycur))

DrawFooter ==
    /\ Drawing("footer")
    /\ Drew(FooterOps(Scale, ycur), ycur)

DrawBundlesNav ==
    /\ Drawing("bundles_nav")
    /\ \E tw \in TextWidths(Cur.a, Sc(17, Scale)) :
          Drew(BundlesNavOps(W, Scale, tw), BundlesNavEnd(Scale))

DrawSearchBar ==
    /\ Drawing("search_bar")
    /\ Drew(SearchBarOps(W, Scale, ycur), SearchBarEnd(Scale, ycur))

DrawBundlesHeader ==
    /\ Drawing("bundles_header")
    /\ Drew(BundlesHeaderOps(Scale, ycur), BundlesHeaderEnd(Scale, ycur))

DrawBundleRow ==
    /\ Drawing("bundle_row")
    /\ \E cw \in TextWidths(Cur.a, Sc(10, Scale)) :
          Drew(BundleRowOps(W, Scale, ycur, cw), BundleRowEnd(Scale, ycur))

\* The generator returns; lines 598-600, and the two loops step.
SaveImage ==
    /\ prog = "render" /\ rpc = "draw" /\ step = Len(Gen)
    /\ LET p == RenderPath(script_dir, devices[dev].prefix, screens[scr].name)
       IN  /\ disk' = (p :> canvas) @@ disk
           /\ log' = Append(log, p)
           /\ out' = Append(out, <<"Saved", p>>)
    /\ rpc' = "start"
    /\ IF scr < Len(screens) THEN scr' = scr + 1 /\ dev' = dev
       ELSE scr' = 1 /\ dev' = dev + 1
    /\ UNCHANGED <<prog, script_dir, nvars, step, canvas, ycur, drawn, blocks,
                   tab_colors>>

\* Lines 602-605.
Finish ==
    /\ prog = "render" /\ rpc = "start" /\ dev > Len(devices)
    /\ out' = Append(out, <<"All screenshots saved">>)
    /\ rpc' = "done"
    /\ UNCHANGED <<prog, script_dir, disk, log, nvars, dev, scr, step, canvas, ycur,
                   drawn, blocks, tab_colors>>

\* A variant with the loop body in a try/except that goes on with the next
\* (device, screen) pair.
RaiseCaught ==
    /\ prog = "render"
    /\ \/ rpc = "start" /\ dev <= Len(devices)
       \/ rpc = "draw"
    /\ rpc' = "start"
    /\ IF scr < Len(screens) THEN scr' = scr + 1 /\ dev' = dev
       ELSE scr' = 1 /\ dev' = dev + 1
    /\ UNCHANGED <<prog, script_dir, disk, log, out, nvars, step, canvas,
                   ycur, drawn, blocks, tab_colors>>

\* Image.new, a draw call or img.save raises: nothing in main catches it.
Raise ==
    /\ prog = "render"
    /\ \/ rpc = "start" /\ dev <= Len(devices)
       \/ rpc = "draw"
    /\ rpc' = "crashed"
    /\ UNCHANGED <<prog, script_dir, disk, log, out, nvars, dev, scr, step, canvas,
                   ycur, drawn, blocks, tab_colors>>

RenderNext ==
    \/ NewCanvas \/ DrawStatusBar \/ DrawNavBar \/ DrawLargeTitle \/ Advance
    \/ DrawConnectionCard \/ DrawStatusHeader \/ DrawTransferCard
    \/ DrawActionButtons \/ DrawTabBar \/ DrawAvatar \/ DrawCenteredLine
    \/ DrawBadge \/ DrawProfileHeader \/ DrawStatCard \/ DrawRankCard
    \/ DrawCommunityBar \/ DrawFormSectionHeader \/ DrawTopCorners
    \/ DrawFormRow \/ DrawFooter \/ DrawBundlesNav \/ DrawSearchBar
    \/ DrawBundlesHeader \/ DrawBundleRow \/ SaveImage \/ Finish \/ Raise

Init == InitNormalize \/ InitRender

Next == NormalizeNext \/ RenderNext

Spec == Init /\ [][Next]_vars

\* The normalizer script run by the interpreter: a script that can take a
\* step takes it, so the run does not stop between two statements.
NormalizeRun == InitNormalize /\ [][NormalizeNext]_vars /\ WF_vars(NormalizeNext)

(***************************************************************************)
(* Properties.                                                             *)
(***************************************************************************)
Range(seq) == {seq[i] : i \in 1..Len(seq)}

\* The normalizer has computed new_width and new_height for the open image.
Fitted == prog = "normalize" /\ npc \in {"resize", "compose", "save"}

\* The normalizer has composed the canvas for the open image.
Composed == prog = "normalize" /\ npc = "save"

NormalizedName(i) ==
    "C:\\Users\\Jeremy\\Documents\\GitHub\\DataPost-iPhone\\screenshots\\ipad_screenshot_"
        \o <<"1", "2", "3", "4">>[i] \o ".png"

\* C1: every image the normalizer has written is exactly 2048 x 2732,
\* whatever the size of its source.
C1_OutputHasTargetSize ==
    prog = "normalize" =>
        /\ \A p \in DOMAIN disk : disk[p] = <<2048, 2732>>
        /\ \A i \in 1..4 : <<"Saved", i>> \in Range(out) =>
               /\ NormalizedName(i) \in DOMAIN disk
               /\ disk[NormalizedName(i)] = <<2048, 2732>>

\* A source of another size and another ratio has just been saved.
C1_Witness ==
    /\ prog = "normalize" /\ npc = "loop" /\ idx = 2
    /\ img = <<2796, 1290>>
    /\ NormalizedName(2) \in DOMAIN disk
    /\ disk[NormalizedName(2)] = <<2048, 2732>>

\* C2 as claimed: the free side is the exact proportional value truncated by
\* less than one pixel.
C2_TruncatedByLessThanOnePixel ==
    Fitted =>
        /\ new_width = 2048 =>
               /\ 0 <= 2048 * img[2] - new_height * img[1]
               /\ 2048 * img[2] - new_height * img[1] < img[1]
        /\ new_height = 2732 =>
               /\ 0 <= 2732 * img[1] - new_width * img[2]
               /\ 2732 * img[1] - new_width * img[2] < img[2]

\* C2 amended: the free side is never above the exact proportional value and
\* falls short of it by at most one pixel (one full pixel when the float
\* quotient or product lands just below an exact integer).
C2_TruncatedByAtMostOnePixel ==
    Fitted =>
        /\ new_width = 2048 =>
               /\ 0 <= 2048 * img[2] - new_height * img[1]
               /\ 2048 * img[2] - new_height * img[1] <= img[1]
        /\ new_height = 2732 =>
               /\ 0 <= 2732 * img[1] - new_width * img[2]
               /\ 2732 * img[1] - new_width * img[2] <= img[2]

\* 128 x 93 fitted by width: 2048 * 93 / 128 is exactly 1488, the code gets 1487.
C2_Witness ==
    /\ Fitted /\ img = <<128, 93>>
    /\ new_width = 2048 /\ new_height = 1487

\* C3: a source in the target ratio 2048:2732 is resized to exactly
\* 2048 x 2732 and pasted at (0, 0): no padding on either axis.
C3_TargetRatioNoPadding ==
    (prog = "normalize" /\ img[1] * 2732 = img[2] * 2048 /\ img # <<0, 0>>) =>
        /\ Fitted => new_width = 2048 /\ new_height = 2732
        /\ npc \in {"compose", "save"} => img_resized = <<2048, 2732>>
        /\ Composed => paste_x = 0 /\ paste_y = 0

C3_Witness ==
    /\ Composed /\ img = <<1024, 1366>>
    /\ img_resized = <<2048, 2732>> /\ paste_x = 0 /\ paste_y = 0

\* C4: a failure on one file is caught and reported, the files after it are
\* still processed, every file that did not fail has its output, and the
\* batch always gets to its final "Done" step.
C4_BatchSurvivesFailures ==
    /\ [](prog = "normalize" =>
            /\ npc = "done" => idx = 4 /\ out[Len(out)] = <<"Done">>
            /\ \A i \in 1..4 :
                  (i < idx \/ (i = idx /\ npc \in {"loop", "done"})) =>
                      \/ /\ <<"Error", i>> \in Range(out)
                         /\ <<"Saved", i>> \notin Range(out)
                      \/ /\ <<"Saved", i>> \in Range(out)
                         /\ <<"Error", i>> \notin Range(out)
                         /\ NormalizedName(i) \in DOMAIN disk)
    /\ <>(prog = "normalize" /\ npc = "done")

\* The first and third files failed, the second and fourth were written.
C4_Witness ==
    /\ prog = "normalize" /\ npc = "done"
    /\ out = << <<"Error", 1>>, <<"Saved", 2>>, <<"Error", 3>>, <<"Saved", 4>>, <<"Done">> >>
    /\ DOMAIN disk = {NormalizedName(2), NormalizedName(4)}

ProfileSize(d) == IF d = 1 THEN <<1290, 2796>> ELSE <<2048, 2732>>

RenderedNames ==
    { "iphone_status.png", "iphone_profile.png", "iphone_settings.png",
      "iphone_bundles.png", "ipad_status.png", "ipad_profile.png",
      "ipad_settings.png", "ipad_bundles.png" }

RenderedPaths(dir) == { dir \o "\\screenshots\\" \o n : n \in RenderedNames }

\* C5: for both device profiles and all four screens the canvas a layout
\* function draws on, returns and main saves has the profile's width and height.
C5_CanvasHasProfileSize ==
    prog = "render" =>
        /\ rpc = "draw" => canvas = ProfileSize(dev)
        /\ \A n \in {"status", "profile", "settings", "bundles"} :
              LET iphone == script_dir \o "\\screenshots\\iphone_" \o n \o ".png"
                  ipad   == script_dir \o "\\screenshots\\ipad_" \o n \o ".png"
              IN  /\ iphone \in DOMAIN disk => disk[iphone] = <<1290, 2796>>
                  /\ ipad \in DOMAIN disk => disk[ipad] = <<2048, 2732>>

C5_Witness ==
    /\ prog = "render" /\ rpc = "done"
    /\ DOMAIN disk = RenderedPaths(script_dir)

\* C6: every coordinate of every draw call lies on the canvas:
\* 0 <= x <= width and 0 <= y <= height.
C6_CoordinatesOnCanvas ==
    prog = "render" =>
        \A i \in 1..Len(drawn) :
            /\ 0 <= drawn[i].x0 /\ drawn[i].x0 <= ProfileSize(dev)[1]
            /\ 0 <= drawn[i].x1 /\ drawn[i].x1 <= ProfileSize(dev)[1]
            /\ 0 <= drawn[i].y0 /\ drawn[i].y0 <= ProfileSize(dev)[2]
            /\ 0 <= drawn[i].y1 /\ drawn[i].y1 <= ProfileSize(dev)[2]

\* The lowest block of the tallest screen (the settings footer on the
\* phone), three pixels above the bottom edge.
C6_Witness ==
    /\ prog = "render" /\ rpc = "draw" /\ dev = 1 /\ scr = 3
    /\ \E i \in 1..Len(drawn) : drawn[i].k = "text" /\ drawn[i].y0 = 2793

\* C7: a centered label has left and right margins inside its container
\* that differ by at most one pixel.
C7_CenteredWithinOnePixel ==
    prog = "render" =>
        \A i \in 1..Len(drawn) :
            drawn[i].c # << >> =>
                LET left  == drawn[i].x0 - drawn[i].c[1]
                    right == drawn[i].c[1] + drawn[i].c[2] - (drawn[i].x0 + drawn[i].c[3])
                IN  left - right <= 1 /\ right - left <= 1

\* A label in a half-width button with an odd amount of slack.
C7_Witness ==
    /\ prog = "render" /\ rpc = "draw"
    /\ \E i \in 1..Len(drawn) :
          /\ drawn[i].c # << >>
          /\ drawn[i].c[1] > 0 /\ drawn[i].c[3] > 1
          /\ (drawn[i].c[2] - drawn[i].c[3]) % 2 = 1

\* C8: a source proportionally wider than the target is fitted by width, any
\* other by height, and the resized image fits inside the target.
C8_FitRule ==
    Fitted =>
        /\ img[1] * 2732 > img[2] * 2048 => new_width = 2048
        /\ ~(img[1] * 2732 > img[2] * 2048) => new_height = 2732
        /\ new_width <= 2048 /\ new_height <= 2732

C8_Witness ==
    /\ Fitted /\ img = <<2796, 1290>>
    /\ new_width = 2048 /\ new_height < 2732

\* C9: the resized image is pasted centered: paste_x = (2048 - nw) div 2 and
\* paste_y = (2732 - nh) div 2, both non-negative, and the padding before and
\* after the image differs by at most one pixel on each axis.
C9_PastedCentered ==
    Composed =>
        /\ paste_x = (2048 - new_width) \div 2
        /\ paste_y = (2732 - new_height) \div 2
        /\ paste_x >= 0 /\ paste_y >= 0
        /\ (2048 - new_width - paste_x) - paste_x \in {0, 1}
        /\ (2732 - new_height - paste_y) - paste_y \in {0, 1}

\* An odd amount of padding: one pixel more below than above.
C9_Witness ==
    /\ Composed /\ img = <<128, 93>>
    /\ paste_y = 622 /\ 2732 - new_height - paste_y = 623

NormalizerInputs ==
    { "C:\\Users\\Jeremy\\Documents\\GitHub\\DataPost-iPhone\\screenshots\\screenshot_"
          \o d \o ".png" : d \in {"1", "2", "3", "4"} }

\* C10: the renderer writes one file <prefix>_<screen>.png per device and
\* screen, the normalizer ipad_<filename> per input; no path is written
\* twice, none is a path the other script writes, and no normalizer output
\* is a normalizer input.
C10_OutputPathsDistinct ==
    /\ \A i, j \in 1..Len(log) : i # j => log[i] # log[j]
    /\ DOMAIN disk = Range(log)
    /\ prog = "render" =>
          /\ Range(log) \subseteq RenderedPaths(script_dir)
          /\ rpc = "done" => Range(log) = RenderedPaths(script_dir) /\ Len(log) = 8
          /\ \A i \in 1..4 : NormalizedName(i) \notin Range(log)
    /\ prog = "normalize" =>
          /\ \A i \in 1..4 : <<"Saved", i>> \in Range(out) <=> NormalizedName(i) \in Range(log)
          /\ Range(log) \subseteq {NormalizedName(i) : i \in 1..4}
          /\ Range(log) \cap NormalizerInputs = { }
          /\ \A d \in ScriptDirs : Range(log) \cap RenderedPaths(d) = { }

\* The renderer has written all eight files into the directory the
\* normalizer writes to.
C10_Witness ==
    /\ prog = "render" /\ rpc = "done" /\ Len(log) = 8
    /\ script_dir = "C:\\Users\\Jeremy\\Documents\\GitHub\\DataPost-iPhone"
    /\ SCREENSHOTS_DIR(script_dir) = screenshots_dir

\* The renderer's files in the order main's two loops write them.
RenderedOrder ==
    << "iphone_status.png", "iphone_profile.png", "iphone_settings.png",
       "iphone_bundles.png", "ipad_status.png", "ipad_profile.png",
       "ipad_settings.png", "ipad_bundles.png" >>

\* C11: a failure in one (device, screen) iteration ends the renderer: no
\* step follows it, so no later image is generated or saved; the failing
\* step writes nothing, and the files on disk are exactly those of the
\* iterations before it, each as it was saved.
C11_FailureIsFatal ==
    /\ [](prog = "render" =>
            /\ Len(log) = (dev - 1) * 4 + (scr - 1)
            /\ \A i \in 1..Len(log) :
                  /\ log[i] = script_dir \o "\\screenshots\\" \o RenderedOrder[i]
                  /\ log[i] \in DOMAIN disk
                  /\ disk[log[i]] = ProfileSize(IF i <= 4 THEN 1 ELSE 2)
            /\ DOMAIN disk = Range(log))
    /\ [][prog = "render" =>
            /\ rpc # "crashed"
            /\ rpc' = "crashed" => disk' = disk /\ log' = log /\ out' = out]_vars

\* The third screen of the phone failed while being drawn: two files were
\* saved before it and nothing after.
C11_Witness ==
    /\ prog = "render" /\ rpc = "crashed"
    /\ dev = 1 /\ scr = 3 /\ step > 2
    /\ Len(log) = 2 /\ Cardinality(DOMAIN disk) = 2

\* The helpers whose returned cursor the layout functions assign to y.
CursorHelpers ==
    { "nav_bar", "large_title", "connection_card", "transfer_card",
      "form_row", "form_section_header" }

\* C12: within one screen render the cursor y never decreases from one
\* draw step to the next, a step through a cursor-returning helper strictly
\* increases it, and each such helper (draw_action_buttons included, whose
\* result main ignores) returns more than the y it is given, at both scales.
C12_CursorMonotone ==
    /\ [](prog = "render" /\ rpc = "draw" =>
            /\ NavBarEnd(Scale, ycur) > ycur
            /\ NavBarEnd(Scale, Sc(59, Scale)) > Sc(59, Scale)
            /\ LargeTitleEnd(Scale, ycur) > ycur
            /\ ConnectionCardEnd(Scale, ycur) > ycur
            /\ TransferCardEnd(Scale, ycur) > ycur
            /\ ActionButtonsEnd(Scale, ycur) > ycur
            /\ ActionButtonsEnd(Scale, ActionButtonsTop(H, Scale)) > ActionButtonsTop(H, Scale)
            /\ FormRowEnd(Scale, ycur) > ycur
            /\ FormSectionHeaderEnd(Scale, ycur) > ycur)
    /\ [][(prog = "render" /\ rpc = "draw" /\ rpc' = "draw") =>
            /\ ycur' >= ycur
            /\ blocks'[Len(blocks')] \in CursorHelpers => ycur' > ycur]_vars

\* A form row of the settings screen has just been drawn at scale 2.
C12_Witness ==
    /\ prog = "render" /\ rpc = "draw" /\ dev = 2 /\ scr = 3
    /\ Len(blocks) > 3 /\ blocks[Len(blocks)] = "form_row"
    /\ ycur > NavBarEnd(2, Sc(59, 2))

\* The layout function of the current screen has drawn its last block.
ScreenDrawn == prog = "render" /\ rpc = "draw" /\ step = Len(Gen)

\* C13: every screen draws the status bar first, then its navigation and
\* title region, then its content; status, profile and settings draw the
\* tab bar once, as their last block, with the screen's own tab (0, 1, 2)
\* and no other highlighted; the bundles screen draws no tab bar.
C13_DrawOrder ==
    (prog = "render" /\ rpc = "draw") =>
        /\ \A i \in 1..Len(blocks) :
              /\ blocks[i] = "status_bar" <=> i = 1
              /\ blocks[i] \in {"nav_bar", "bundles_nav"} <=> i = 2
              /\ blocks[i] = "large_title" <=> (i = 3 /\ scr \in 1..3)
              /\ blocks[i] = "tab_bar" =>
                     scr \in 1..3 /\ i = Len(blocks) /\ ScreenDrawn
        /\ "bundles_nav" \in Range(blocks) <=> (scr = 4 /\ Len(blocks) >= 2)
        /\ (ScreenDrawn /\ scr \in 1..3) =>
              /\ blocks[Len(blocks)] = "tab_bar"
              /\ \A i \in 1..3 : tab_colors[i] = "BLUE" <=> i - 1 = scr - 1
        /\ (ScreenDrawn /\ scr = 4) =>
              /\ Len(blocks) > 3
              /\ "tab_bar" \notin Range(blocks)
        /\ "tab_bar" \notin Range(blocks) => tab_colors = << >>

\* The profile screen of the tablet is complete: its tab bar is drawn with
\* the middle tab highlighted.
C13_Witness ==
    /\ ScreenDrawn /\ dev = 2 /\ scr = 2
    /\ blocks[Len(blocks)] = "tab_bar"
    /\ tab_colors = <<"TEXT_SECONDARY", "BLUE", "TEXT_SECONDARY">>

\* Line 115: the top edge of the tab bar.
TabBarTop == H - Sc(83, Scale)

\* A content block of a screen that ends with a tab bar has just been drawn.
ContentDrawn ==
    /\ prog = "render" /\ rpc = "draw" /\ scr \in 1..3
    /\ Len(blocks) > 0 /\ blocks[Len(blocks)] # "tab_bar"

\* The draw calls of the block drawn last and the cursor after it are on or
\* above the top edge of the tab bar.
AboveTabBar ==
    /\ ycur <= TabBarTop
    /\ \A i \in 1..Len(drawn) : drawn[i].y0 <= TabBarTop /\ drawn[i].y1 <= TabBarTop

\* C14 as claimed: on the status, profile and settings screens of both
\* devices every content block and the layout cursor stay on or above the
\* top edge of the tab bar.
C14_ContentAboveTabBar == ContentDrawn => AboveTabBar
====
